---- MODULE Spec2Model ----
(***************************************************************************)
(* The workload external storage of pkg/storage/cloudimpl:                 *)
(* ParseWorkloadConfig (URI -> roachpb.ExternalStorage_Workload),          *)
(* makeWorkloadStorage (config -> bound adapter) and the adapter's file    *)
(* operations.                                                             *)
(*                                                                         *)
(* Go strings are modelled as sequences of one-character strings, so that  *)
(* strings.Trim, strings.Split, strings.ToLower, strconv.ParseInt and the  *)
(* flag formatting `--`+k+`=`+v are computed character by character.       *)
(* error values are records [fmt, args]: the format string of the          *)
(* errors.Errorf call and its string arguments; NoErr is Go's nil error.   *)
(* A Go pointer that may be nil is a sequence of length 0 (nil) or 1.      *)
(***************************************************************************)
EXTENDS Integers, Sequences, FiniteSets, TLC

VARIABLES
    pc,         \* position of the caller: "parse", "bind", "ops"
    uri,        \* the *url.URL handed to ParseWorkloadConfig: [Path, RawQuery]
    parsed,     \* what ParseWorkloadConfig returned: [WorkloadConfig, err]
    storage,    \* what makeWorkloadStorage returned: <<>> (nil) or <<s>>
    bindErr,    \* the error makeWorkloadStorage returned
    lookups,    \* generator names handed to workload.Get so far
    telemetry,  \* telemetry counter "external-io.workload"
    readers,    \* the CSV row readers ReadFile has returned, in call order
    ret,        \* the last adapter call: [op, returned, err, val]
    panicked    \* the value of a panic in flight, <<>> when there is none

vars == <<pc, uri, parsed, storage, bindErr, lookups, telemetry, readers, ret, panicked>>

----------------------------------------------------------------------------
(* Bounds of the model. *)

\* most path segments in a generated URI path
MaxSegs == 4
\* most leading and most trailing slashes in a generated URI path
MaxSlashes == 1
\* most key=value pairs in a generated query
MaxPairs == 3
\* rows of every table of the registry's generators
RowCount == 2
\* most streams opened from one adapter
MaxReaders == 2

----------------------------------------------------------------------------
(* Strings. *)

csv == <<"c", "s", "v">>
CsV == <<"C", "s", "V">>
bank == <<"b", "a", "n", "k">>
kv == <<"k", "v">>
one == <<"1">>
minusOne == <<"-", "1">>
notInt == <<"x">>
\* 2^63, one more than the largest int64
tooBig == <<"9","2","2","3","3","7","2","0","3","6","8","5","4","7","7","5","8","0","8">>
\* -2^63 - 1, one less than the smallest int64
tooSmall == <<"-","9","2","2","3","3","7","2","0","3","6","8","5","4","7","7","5","8","0","9">>
\* twenty nines, more than 64 bits hold, and then a letter
overflowThenLetter == <<"9","9","9","9","9","9","9","9","9","9","9","9","9","9","9","9","9","9","9","9","x">>
empty == <<>>

version == <<"v", "e", "r", "s", "i", "o", "n">>
rowStart == <<"r", "o", "w", "-", "s", "t", "a", "r", "t">>
rowEnd == <<"r", "o", "w", "-", "e", "n", "d">>
seed == <<"s", "e", "e", "d">>

SeqsUpTo(S, n) == UNION {[1..k -> S] : k \in 0..n}

RECURSIVE Concat(_)
Concat(ss) == IF ss = <<>> THEN <<>> ELSE Head(ss) \o Concat(Tail(ss))

RECURSIVE Join(_, _)
\* strings.Join
Join(ss, sep) ==
    IF ss = <<>> THEN <<>>
    ELSE IF Len(ss) = 1 THEN ss[1]
    ELSE ss[1] \o sep \o Join(Tail(ss), sep)

RECURSIVE TrimLeft(_, _)
TrimLeft(s, c) == IF s # <<>> /\ Head(s) = c THEN TrimLeft(Tail(s), c) ELSE s

RECURSIVE TrimRight(_, _)
TrimRight(s, c) ==
    IF s # <<>> /\ s[Len(s)] = c THEN TrimRight(SubSeq(s, 1, Len(s) - 1), c) ELSE s

\* strings.Trim(s, c) for a one-character cutset
Trim(s, c) == TrimRight(TrimLeft(s, c), c)

RECURSIVE Split(_, _)
\* strings.Split(s, c) for a one-character separator: one more piece than
\* there are separators, empty pieces kept; Split("", c) is [""].
Split(s, c) ==
    LET at == {i \in 1..Len(s) : s[i] = c}
    IN  IF at = {} THEN <<s>>
        ELSE LET i == CHOOSE x \in at : \A y \in at : x <= y
             IN  <<SubSeq(s, 1, i - 1)>> \o Split(SubSeq(s, i + 1, Len(s)), c)

UpperLetters ==
    <<"A", "B", "C", "D", "E", "F", "G", "H", "I", "J", "K", "L", "M",
      "N", "O", "P", "Q", "R", "S", "T", "U", "V", "W", "X", "Y", "Z">>
LowerLetters ==
    <<"a", "b", "c", "d", "e", "f", "g", "h", "i", "j", "k", "l", "m",
      "n", "o", "p", "q", "r", "s", "t", "u", "v", "w", "x", "y", "z">>

\* the lower-case letter of an upper-case letter, every other character itself
UpperToLower(c) ==
    IF \E i \in 1..Len(UpperLetters) : UpperLetters[i] = c
    THEN LowerLetters[CHOOSE i \in 1..Len(UpperLetters) : UpperLetters[i] = c]
    ELSE c

\* strings.ToLower on ASCII strings: every letter A-Z is lowered
ToLower(s) == [i \in 1..Len(s) |-> UpperToLower(s[i])]

----------------------------------------------------------------------------
(* Errors. *)

NoErr == [fmt |-> "", args |-> <<>>]
Errorf(fmt, args) == [fmt |-> fmt, args |-> args]

ErrPathFmt == "path must be of the form /<format>/<generator>/<table>: %s"
ErrVersionRequired == "parameter version is required"
ErrSyntaxFmt == "strconv.ParseInt: parsing %q: invalid syntax"
ErrRangeFmt == "strconv.ParseInt: parsing %q: value out of range"

----------------------------------------------------------------------------
(* strconv.ParseInt(s, 10, 64). *)

Digits == <<"0", "1", "2", "3", "4", "5", "6", "7", "8", "9">>
IsDigit(c) == \E d \in 1..10 : Digits[d] = c
DigitVal(c) == (CHOOSE d \in 1..10 : Digits[d] = c) - 1

RECURSIVE Unsigned(_)
Unsigned(ds) ==
    IF ds = <<>> THEN 0 ELSE 10 * Unsigned(SubSeq(ds, 1, Len(ds) - 1)) + DigitVal(ds[Len(ds)])

\* 2^63 - 1, 2^63 and 2^64 - 1 as digit strings: the range is decided on
\* the digits
MaxInt64Digits == <<"9","2","2","3","3","7","2","0","3","6","8","5","4","7","7","5","8","0","7">>
MinInt64Digits == <<"9","2","2","3","3","7","2","0","3","6","8","5","4","7","7","5","8","0","8">>
MaxUint64Digits == <<"1","8","4","4","6","7","4","4","0","7","3","7","0","9","5","5","1","6","1","5">>

\* a > b for digit strings of equal length
DigitsGreater(a, b) ==
    \E i \in 1..Len(a) : DigitVal(a[i]) > DigitVal(b[i]) /\ \A j \in 1..(i - 1) : a[j] = b[j]

\* the number written ds is greater than the number written lim
Exceeds(ds, lim) ==
    LET d == TrimLeft(ds, "0")
    IN  Len(d) > Len(lim) \/ (Len(d) = Len(lim) /\ DigitsGreater(d, lim))

\* An int64 as the model writes it: an integer when it has fewer than ten
\* digits, and its decimal numeral (a "-" and the digits) when it is beyond
\* the integers the model checker computes with.
Int64Of(neg, ds) ==
    LET d == TrimLeft(ds, "0")
    IN  IF Len(d) < Len(MaxInt64Digits) - Len(Digits) + 1
        THEN (IF neg THEN 0 - Unsigned(d) ELSE Unsigned(d))
        ELSE (IF neg THEN <<"-">> \o d ELSE d)

\* strconv.ParseUint reads the digits left to right and stops at the first
\* character that is no digit (a syntax error) or at the first digit with
\* which the number read so far no longer fits 64 bits (a range error),
\* whichever comes first: [stop, overflow], stop the index it stops at,
\* Len(ds) + 1 when it reads all of ds.
ScanUint(ds) ==
    LET bad == {i \in 1..Len(ds) : ~IsDigit(ds[i])}
        firstBad == IF bad = {} THEN Len(ds) + 1
                    ELSE CHOOSE i \in bad : \A j \in bad : i <= j
        over == {i \in 1..(firstBad - 1) : Exceeds(SubSeq(ds, 1, i), MaxUint64Digits)}
    IN  IF over # {}
        THEN [stop |-> CHOOSE i \in over : \A j \in over : i <= j, overflow |-> TRUE]
        ELSE [stop |-> firstBad, overflow |-> FALSE]

\* [val, err]: on a syntax error val is 0, on a range error the nearest of
\* -2^63 and 2^63 - 1
ParseInt(s) ==
    LET signed == s # <<>> /\ Head(s) \in {"+", "-"}
        neg == s # <<>> /\ Head(s) = "-"
        ds == IF signed THEN Tail(s) ELSE s
        scan == ScanUint(ds)
    IN  IF ds = <<>> \/ (~scan.overflow /\ scan.stop <= Len(ds))
        THEN [val |-> 0, err |-> Errorf(ErrSyntaxFmt, <<s>>)]
        ELSE IF ~neg /\ (scan.overflow \/ Exceeds(ds, MaxInt64Digits))
        THEN [val |-> Int64Of(FALSE, MaxInt64Digits), err |-> Errorf(ErrRangeFmt, <<s>>)]
        ELSE IF neg /\ (scan.overflow \/ Exceeds(ds, MinInt64Digits))
        THEN [val |-> Int64Of(TRUE, MinInt64Digits), err |-> Errorf(ErrRangeFmt, <<s>>)]
        ELSE [val |-> Int64Of(neg, ds), err |-> NoErr]

----------------------------------------------------------------------------
(* net/url: the query of a URL as url.Values. *)

\* the values of key k in the order of the raw query
ValuesOf(raw, k) ==
    LET F[i \in 0..Len(raw)] ==
            IF i = 0 THEN <<>>
            ELSE IF raw[i].key = k THEN Append(F[i - 1], raw[i].value) ELSE F[i - 1]
    IN  F[Len(raw)]

\* uri.Query(): a map from each key present to its values
Query(raw) == [k \in {raw[i].key : i \in 1..Len(raw)} |-> ValuesOf(raw, k)]

\* url.Values.Get: the first value of the key, "" when there is none
Get(q, k) == IF k \in DOMAIN q /\ Len(q[k]) > 0 THEN q[k][1] ELSE <<>>

\* url.Values.Del
Del(q, k) == [x \in DOMAIN q \ {k} |-> q[x]]

\* the orders in which `range` may visit the keys of a map
Orders(S) ==
    {o \in [1..Cardinality(S) -> S] : \A i, j \in 1..Cardinality(S) : i # j => o[i] # o[j]}

----------------------------------------------------------------------------
(* ParseWorkloadConfig. *)

PathPartsUntrimmed(path) == Split(path, "/")

\* line 139
PathParts(path) == Split(Trim(path, "/"), "/")

VersionLast(q) == IF version \in DOMAIN q /\ Len(q[version]) > 0 THEN q[version][Len(q[version])] ELSE <<>>

\* line 149
Version(q) == Get(q, version)

\* lines 151-157 and 158-164: [q, val, err]
ParseRowBound(q, key) ==
    LET s == Get(q, key)
    IN  IF Len(s) > 0
        THEN LET r == ParseInt(s)
             IN  [q |-> Del(q, key), val |-> r.val, err |-> r.err]
        ELSE [q |-> q, val |-> 0, err |-> NoErr]

\* line 167
Flag(k, v) == <<"-", "-">> \o k \o <<"=">> \o v

\* lines 165-169, the keys visited in the order ord
Flags(q, ord) == Concat([i \in 1..Len(ord) |-> [j \in 1..Len(q[ord[i]]) |-> Flag(ord[i], q[ord[i]][j])]])

\* lines 145-164: the query after the three reserved keys were handled
\* [q, Version, BatchBegin, BatchEnd, err]
ParseQuery(q0) ==
    IF version \notin DOMAIN q0
    THEN [q |-> q0, Version |-> <<>>, BatchBegin |-> 0, BatchEnd |-> 0,
          err |-> Errorf(ErrVersionRequired, <<>>)]
    ELSE LET b == ParseRowBound(Del(q0, version), rowStart)
             e == ParseRowBound(b.q, rowEnd)
         IN  IF b.err # NoErr
             THEN [q |-> b.q, Version |-> Version(q0), BatchBegin |-> b.val, BatchEnd |-> 0,
                   err |-> b.err]
             ELSE [q |-> e.q, Version |-> Version(q0), BatchBegin |-> b.val,
                   BatchEnd |-> e.val, err |-> e.err]

\* the keys line 165 ranges over, when it is reached
FlagKeys(u) ==
    LET r == ParseQuery(Query(u.RawQuery))
    IN  IF Len(PathParts(u.Path)) = 3 /\ r.err = NoErr THEN DOMAIN r.q ELSE {}

\* lines 133-172: the roachpb.ExternalStorage returned and the error
ParseWorkloadConfigOf(u, ord) ==
    LET pathParts == PathParts(u.Path)
        r == ParseQuery(Query(u.RawQuery))
    IN  IF Len(pathParts) # 3
        THEN [WorkloadConfig |-> <<>>, err |-> Errorf(ErrPathFmt, <<u.Path>>)]
        ELSE IF r.err # NoErr
        THEN [WorkloadConfig |-> <<>>, err |-> r.err]
        ELSE [WorkloadConfig |->
                  <<[Format |-> pathParts[1], Generator |-> pathParts[2],
                     Table |-> pathParts[3], Version |-> r.Version,
                     BatchBegin |-> r.BatchBegin, BatchEnd |-> r.BatchEnd,
                     Flags |-> Flags(r.q, ord)]>>,
              err |-> NoErr]

NoRet == [op |-> "", returned |-> FALSE, err |-> NoErr, val |-> <<>>]
NotParsed == [WorkloadConfig |-> <<>>, err |-> NoErr]

ParseWorkloadConfig(URIs) ==
    /\ pc = "parse"
    /\ panicked = <<>>
    /\ \E u \in URIs :
         \E ord \in Orders(FlagKeys(u)) :
            /\ uri' = u
            /\ parsed' = ParseWorkloadConfigOf(u, ord)
    /\ pc' = "bind"
    /\ UNCHANGED <<storage, bindErr, lookups, telemetry, readers, ret, panicked>>

----------------------------------------------------------------------------
(* The URIs ParseWorkloadConfig is given. *)

Slashes(n) == [i \in 1..n |-> "/"]
Pair(k, v) == [key |-> k, value |-> v]
URI(path, raw) == [Path |-> path, RawQuery |-> raw]

\* every path of up to MaxSegs segments, empty ones included
PathsOf(segs) ==
    {Slashes(l) \o Join(ss, <<"/">>) \o Slashes(t) :
        l \in 0..MaxSlashes, t \in 0..MaxSlashes, ss \in SeqsUpTo(segs, MaxSegs)}

QueryKeys == {version, rowStart, rowEnd, seed}
QueryValues == {empty, one, minusOne, notInt}

\* every query of up to MaxPairs pairs
QueriesOf(keys, values) ==
    SeqsUpTo({Pair(k, v) : k \in keys, v \in values}, MaxPairs)

ParserURIs ==
    {URI(p, raw) : p \in PathsOf({empty, csv, bank}),
                   raw \in {<<>>, <<Pair(version, one)>>}}
    \cup {URI(<<"/">> \o Join(<<csv, bank, bank>>, <<"/">>), raw) :
                   raw \in QueriesOf(QueryKeys, QueryValues)}
    \cup {URI(<<"/">> \o Join(<<csv, bank, bank>>, <<"/">>),
               <<Pair(version, one), Pair(k, v)>>) :
                   k \in {rowStart, rowEnd},
                   v \in {tooBig, tooSmall, overflowThenLetter,
                          <<"-">> \o overflowThenLetter}}

Init ==
    /\ pc = "parse"
    /\ uri = URI(<<>>, <<>>)
    /\ parsed = NotParsed
    /\ storage = <<>>
    /\ bindErr = NoErr
    /\ lookups = <<>>
    /\ telemetry = 0
    /\ readers = <<>>
    /\ ret = NoRet
    /\ panicked = <<>>

ParseNext == ParseWorkloadConfig(ParserURIs)

\* ParseWorkloadConfig alone, over a wide set of URIs
SpecParse == Init /\ [][ParseNext]_vars

----------------------------------------------------------------------------
(* The workload package: generator registry, flags, tables, CSV reader.    *)

ErrUnknownGeneratorFmt == "unknown generator: %s"
ErrFlagFmt == "invalid argument or unknown flag: %s"

Table(name) == [Name |-> name, Rows |-> RowCount]
ZeroTable == [Name |-> <<>>, Rows |-> 0]

\* the registered generators: bank takes flags, kv does not
Registry ==
    [g \in {bank, kv} |->
        IF g = bank
        THEN [Name |-> bank, Version |-> one, Flagser |-> TRUE, FlagNames |-> {seed},
              Tables |-> <<Table(bank)>>]
        ELSE [Name |-> kv, Version |-> one, Flagser |-> FALSE, FlagNames |-> {},
              Tables |-> <<Table(kv), Table(bank)>>]]

\* workload.Get: [meta, err]
WorkloadGet(name) ==
    IF name \in DOMAIN Registry
    THEN [meta |-> <<Registry[name]>>, err |-> NoErr]
    ELSE [meta |-> <<>>, err |-> Errorf(ErrUnknownGeneratorFmt, <<name>>)]

FlagName(f) == Split(SubSeq(f, 3, Len(f)), "=")[1]
FlagValue(f) == Join(Tail(Split(SubSeq(f, 3, Len(f)), "=")), <<"=">>)

\* f.Flags().Parse(flags): every flag is declared and holds an integer
FlagsParse(meta, flags) ==
    LET bad == {i \in 1..Len(flags) :
                    \/ FlagName(flags[i]) \notin meta.FlagNames
                    \/ ParseInt(FlagValue(flags[i])).err # NoErr}
    IN  IF bad = {} THEN NoErr
        ELSE Errorf(ErrFlagFmt, <<flags[CHOOSE i \in bad : \A j \in bad : i <= j]>>)

\* the row-generation function of a table, CSV-encoded
CSVRow(table, i) == <<table.Name, i>>

\* workload.NewCSVRowsReader: an end of 0 means the end of the table
NewCSVRowsReader(table, batchStart, batchEnd) ==
    [table |-> table, batchIdx |-> batchStart,
     batchEnd |-> IF batchEnd = 0 THEN table.Rows ELSE batchEnd,
     out |-> <<>>, eof |-> FALSE]

\* one read of a stream: the next row, or io.EOF
ReaderRead(r) ==
    IF r.batchIdx < r.batchEnd
    THEN [r EXCEPT !.out = Append(r.out, CSVRow(r.table, r.batchIdx)),
                   !.batchIdx = r.batchIdx + 1]
    ELSE [r EXCEPT !.eof = TRUE]

----------------------------------------------------------------------------
(* makeWorkloadStorage. *)

ErrInfoMissing == "workload upload requested but info missing"
ErrFormatFmt == "unsupported format: %s"
ErrVersionFmt == "expected %s version \"%s\" but got \"%s\""
ErrFlagsFmt == "parsing parameters %s"
ErrTableFmt == "unknown table %s for generator %s"

Args == [IOConf |-> "ioConf", Settings |-> "settings"]

FormatSupportedCaseSensitive(conf) == conf.Format = csv

\* line 48
FormatSupported(conf) == ToLower(conf.Format) = csv

VersionUnchecked(meta, conf) == TRUE

\* line 57
VersionMatches(meta, conf) == meta.Version = conf.Version

\* lines 73-78: the first table of that name, the zero Table when none
FindTable(tables, name) ==
    LET at == {i \in 1..Len(tables) : tables[i].Name = name}
    IN  IF at = {} THEN ZeroTable ELSE tables[CHOOSE i \in at : \A j \in at : i <= j]

\* lines 44-83: [s, err, lookups], lookups the names handed to workload.Get
makeWorkloadStorageOf(args, dest) ==
    IF dest.WorkloadConfig = <<>>
    THEN [s |-> <<>>, err |-> Errorf(ErrInfoMissing, <<>>), lookups |-> <<>>]
    ELSE
    LET conf == dest.WorkloadConfig[1]
        got == WorkloadGet(conf.Generator)
    IN  IF ~FormatSupported(conf)
        THEN [s |-> <<>>, err |-> Errorf(ErrFormatFmt, <<conf.Format>>), lookups |-> <<>>]
        ELSE IF got.err # NoErr
        THEN [s |-> <<>>, err |-> got.err, lookups |-> <<conf.Generator>>]
        ELSE
        LET meta == got.meta[1]
            flagErr == IF meta.Flagser THEN FlagsParse(meta, conf.Flags) ELSE NoErr
            table == FindTable(meta.Tables, conf.Table)
        IN  IF ~VersionMatches(meta, conf)
            THEN [s |-> <<>>,
                  err |-> Errorf(ErrVersionFmt, <<meta.Name, conf.Version, meta.Version>>),
                  lookups |-> <<conf.Generator>>]
            ELSE IF flagErr # NoErr
            THEN [s |-> <<>>,
                  err |-> Errorf(ErrFlagsFmt, <<Join(conf.Flags, <<" ">>)>> \o flagErr.args),
                  lookups |-> <<conf.Generator>>]
            ELSE IF table.Name = <<>>
            THEN [s |-> <<>>, err |-> Errorf(ErrTableFmt, <<conf.Table, meta.Name>>),
                  lookups |-> <<conf.Generator>>]
            ELSE [s |-> <<[conf |-> conf, ioConf |-> args.IOConf,
                           gen |-> [Name |-> meta.Name, Flags |-> conf.Flags],
                           table |-> table, settings |-> args.Settings]>>,
                  err |-> NoErr, lookups |-> <<conf.Generator>>]

makeWorkloadStorage ==
    /\ pc = "bind"
    /\ panicked = <<>>
    /\ LET r == makeWorkloadStorageOf(Args, parsed)
       IN  /\ storage' = r.s
           /\ bindErr' = r.err
           /\ lookups' = lookups \o r.lookups
    /\ telemetry' = telemetry + 1
    /\ pc' = "ops"
    /\ UNCHANGED <<uri, parsed, readers, ret, panicked>>

----------------------------------------------------------------------------
(* The adapter's operations. *)

ErrBasenames == "basenames are not supported by workload storage"
ErrWrites == "workload storage does not support writes"
ErrListing == "workload storage does not support listing files"
ErrDeletes == "workload storage does not support deletes"
ErrSizing == "workload storage does not support sizing"

Basenames == {<<>>, <<"f">>}
Offsets == {0, 1}

Bound == pc = "ops" /\ storage # <<>> /\ panicked = <<>>

Return(op, err, val) == [op |-> op, returned |-> TRUE, err |-> err, val |-> val]

\* lines 85-90
Conf(s) == [Provider |-> "ExternalStorageProvider_Workload", WorkloadConfig |-> <<s.conf>>]

ReadFileReaderFromZero(s) == NewCSVRowsReader(s.table, 0, s.conf.BatchEnd)

\* line 110; int is 64 bits wide on the platforms the package builds for,
\* so int(int64) keeps the value
ReadFileReader(s) == NewCSVRowsReader(s.table, s.conf.BatchBegin, s.conf.BatchEnd)

\* lines 106-112
ReadFile ==
    /\ Bound
    /\ \E basename \in Basenames :
         IF basename # <<>>
         THEN /\ ret' = Return("ReadFile", Errorf(ErrBasenames, <<>>), <<>>)
              /\ UNCHANGED readers
         ELSE /\ Len(readers) < MaxReaders
              /\ readers' = Append(readers, ReadFileReader(storage[1]))
              /\ ret' = Return("ReadFile", NoErr, <<Len(readers) + 1>>)
    /\ UNCHANGED <<pc, uri, parsed, storage, bindErr, lookups, telemetry, panicked>>

\* a consumer reads once from one of the open streams
Read ==
    /\ Bound
    /\ \E i \in 1..Len(readers) :
         /\ ~readers[i].eof
         /\ readers' = [readers EXCEPT ![i] = ReaderRead(readers[i])]
    /\ UNCHANGED <<pc, uri, parsed, storage, bindErr, lookups, telemetry, ret, panicked>>

\* the result of an operation on adapter s: [s, err, val], s the adapter after it
WriteFileOf(s) == [s |-> s, err |-> Errorf(ErrWrites, <<>>), val |-> <<>>]
ListFilesOf(s) == [s |-> s, err |-> Errorf(ErrListing, <<>>), val |-> <<>>]
DeleteOf(s) == [s |-> s, err |-> Errorf(ErrDeletes, <<>>), val |-> <<>>]
SizeAsDelete(s) == [s |-> s, err |-> Errorf(ErrDeletes, <<>>), val |-> <<0>>]
SizeOf(s) == [s |-> s, err |-> Errorf(ErrSizing, <<>>), val |-> <<0>>]
CloseOf(s) == [s |-> s, err |-> NoErr, val |-> <<>>]

Call(op, r) ==
    /\ storage' = <<r.s>>
    /\ ret' = Return(op, r.err, r.val)
    /\ UNCHANGED <<pc, uri, parsed, bindErr, lookups, telemetry, readers, panicked>>

\* lines 114-116
WriteFile == Bound /\ \E basename \in Basenames : Call("WriteFile", WriteFileOf(storage[1]))

\* lines 118-120
ListFiles == Bound /\ \E prefix \in Basenames : Call("ListFiles", ListFilesOf(storage[1]))

\* lines 122-124
Delete == Bound /\ \E basename \in Basenames : Call("Delete", DeleteOf(storage[1]))

\* lines 125-127
Size == Bound /\ \E basename \in Basenames : Call("Size", SizeOf(storage[1]))

\* lines 128-130
Close == Bound /\ Call("Close", CloseOf(storage[1]))

ErrUnimplementedReturned(basename, offset) ==
    [panic |-> <<>>, returned |-> TRUE, err |-> Errorf("unimplemented", <<>>)]

\* lines 100-104: the call panics and returns nothing
ReadFileAtOf(basename, offset) ==
    [panic |-> <<"unimplemented">>, returned |-> FALSE, err |-> NoErr]

\* a panic unwinds the calling goroutine: the caller makes no further call
ReadFileAt ==
    /\ Bound
    /\ \E basename \in Basenames, offset \in Offsets :
         LET r == ReadFileAtOf(basename, offset)
         IN  /\ panicked' = r.panic
             /\ ret' = [op |-> "ReadFileAt", returned |-> r.returned, err |-> r.err,
                        val |-> <<>>]
    /\ UNCHANGED <<pc, uri, parsed, storage, bindErr, lookups, telemetry, readers>>

----------------------------------------------------------------------------
(* The whole adapter: parse, bind, then any operations in any order. *)

PipelinePaths ==
    {<<"/">> \o Join(<<f, g, t>>, <<"/">>) :
        f \in {csv, CsV, bank}, g \in {bank, kv, csv}, t \in {bank, kv}}
    \cup {<<"/">> \o Join(<<csv, bank>>, <<"/">>)}

PipelineQueries ==
    {v \o rs \o re \o fl :
        v \in {<<>>, <<Pair(version, one)>>, <<Pair(version, notInt)>>},
        rs \in {<<>>, <<Pair(rowStart, one)>>, <<Pair(rowStart, minusOne)>>,
                <<Pair(rowStart, empty)>>},
        re \in {<<>>, <<Pair(rowEnd, one)>>, <<Pair(rowEnd, minusOne)>>},
        fl \in {<<>>, <<Pair(seed, one)>>, <<Pair(seed, notInt)>>}}

PipelineURIs == {URI(p, raw) : p \in PipelinePaths, raw \in PipelineQueries}

Next ==
    \/ ParseWorkloadConfig(PipelineURIs)
    \/ makeWorkloadStorage
    \/ ReadFile
    \/ Read
    \/ WriteFile
    \/ ListFiles
    \/ Delete
    \/ Size
    \/ Close
    \/ ReadFileAt

Spec == Init /\ [][Next]_vars

----------------------------------------------------------------------------
(* Properties of ParseWorkloadConfig. *)

Parsed == pc # "parse"
ParseOK == Parsed /\ parsed.err = NoErr /\ parsed.WorkloadConfig # <<>>
RawKeys == {uri.RawQuery[i].key : i \in 1..Len(uri.RawQuery)}
ReservedKeys == {version, rowStart, rowEnd}

\* the separators left in the path once its outer slashes are trimmed
InnerSlashes ==
    LET t == Trim(uri.Path, "/") IN Cardinality({i \in 1..Len(t) : t[i] = "/"})

\* C3 as stated: ParseWorkloadConfig succeeds only for three non-empty
\* segments, so a config it returns never has an empty segment.
C3_EmptySegmentRefused ==
    ParseOK => /\ parsed.WorkloadConfig[1].Format # <<>>
               /\ parsed.WorkloadConfig[1].Generator # <<>>
               /\ parsed.WorkloadConfig[1].Table # <<>>

\* C3 amended: ParseWorkloadConfig fails with the path error exactly when the
\* trimmed path does not split into three segments (empty segments count);
\* on success the three segments, empty or not, are Format, Generator and
\* Table unchanged and in order.
C3_ThreeSegments ==
    Parsed =>
        /\ (parsed.err.fmt = ErrPathFmt) <=> (InnerSlashes # 2)
        /\ parsed.err.fmt = ErrPathFmt => parsed.err.args = <<uri.Path>>
        /\ InnerSlashes # 2 => parsed.WorkloadConfig = <<>>
        /\ ParseOK =>
             LET c == parsed.WorkloadConfig[1]
             IN  /\ Join(<<c.Format, c.Generator, c.Table>>, <<"/">>) = Trim(uri.Path, "/")
                 /\ \A s \in {c.Format, c.Generator, c.Table} : \A i \in 1..Len(s) : s[i] # "/"

C3_Witness ==
    /\ ParseOK
    /\ uri.Path = <<"/">> \o csv \o <<"/", "/">> \o bank \o <<"/">>
    /\ parsed.WorkloadConfig[1].Format = csv
    /\ parsed.WorkloadConfig[1].Generator = <<>>
    /\ parsed.WorkloadConfig[1].Table = bank

\* the first value of key k in the raw query
FirstValue(k) ==
    uri.RawQuery[CHOOSE i \in 1..Len(uri.RawQuery) :
                    /\ uri.RawQuery[i].key = k
                    /\ \A j \in 1..(i - 1) : uri.RawQuery[j].key # k].value

\* C4: a three-segment path whose query has no version key fails with
\* "parameter version is required" and no workload config, whatever else the
\* query holds; a config that is returned carries the first version value.
C4_VersionRequired ==
    /\ (Parsed /\ InnerSlashes = 2 /\ version \notin RawKeys) =>
          /\ parsed.err = Errorf(ErrVersionRequired, <<>>)
          /\ parsed.WorkloadConfig = <<>>
    /\ ParseOK => /\ version \in RawKeys
                  /\ parsed.WorkloadConfig[1].Version = FirstValue(version)

C4_Witness ==
    /\ Parsed
    /\ version \notin RawKeys
    /\ \E i \in 1..Len(uri.RawQuery) :
          uri.RawQuery[i].key = rowStart /\ uri.RawQuery[i].value = notInt
    /\ parsed.err.fmt = ErrVersionRequired

Bound64(k) ==
    IF k = rowStart THEN parsed.WorkloadConfig[1].BatchBegin
    ELSE parsed.WorkloadConfig[1].BatchEnd

\* C5 as stated, for each of row-start and row-end in a URI whose path has
\* three segments, that has a version and no other row bound: absent gives
\* 0, an integer gives that integer, anything else (the empty string
\* included) fails with the strconv error.
C5_RowBounds ==
    \A k \in {rowStart, rowEnd} :
        (Parsed /\ InnerSlashes = 2 /\ version \in RawKeys
                /\ ({rowStart, rowEnd} \ {k}) \cap RawKeys = {}) =>
            IF k \notin RawKeys
            THEN ParseOK /\ Bound64(k) = 0
            ELSE IF ParseInt(FirstValue(k)).err = NoErr
            THEN ParseOK /\ Bound64(k) = ParseInt(FirstValue(k)).val
            ELSE /\ parsed.WorkloadConfig = <<>>
                 /\ parsed.err.fmt \in {ErrSyntaxFmt, ErrRangeFmt}

\* the flags of key k among fs, in order
FlagsOfKey(fs, k) == SelectSeq(fs, LAMBDA f : \E v \in QueryValues : f = Flag(k, v))

\* C6 as stated: the flags are one `--key=value` per pair whose key is not
\* reserved, none for a reserved key, the values of one key in query order.
C6_FlagsExact ==
    ParseOK =>
        LET fs == parsed.WorkloadConfig[1].Flags
        IN  /\ \A k \in RawKeys \ ReservedKeys :
                  FlagsOfKey(fs, k) =
                      [i \in 1..Len(ValuesOf(uri.RawQuery, k)) |->
                          Flag(k, ValuesOf(uri.RawQuery, k)[i])]
            /\ \A k \in ReservedKeys : FlagsOfKey(fs, k) = <<>>
            /\ Len(fs) = Cardinality({i \in 1..Len(uri.RawQuery) :
                                         uri.RawQuery[i].key \notin ReservedKeys})

\* C7 as stated: a config that ParseWorkloadConfig returns has a supported
\* format.
C7_ParserChecksFormat ==
    ParseOK => ToLower(parsed.WorkloadConfig[1].Format) = csv

RangeOK(c) == c.BatchBegin >= 0 /\ (c.BatchEnd >= c.BatchBegin \/ c.BatchEnd = 0)

\* C10 as stated: every config ParseWorkloadConfig returns, and every config
\* a stream is opened from, has 0 <= begin and begin <= end or end = 0.
C10_RangeOrdered ==
    /\ ParseOK => RangeOK(parsed.WorkloadConfig[1])
    /\ (storage # <<>> /\ readers # <<>>) => RangeOK(storage[1].conf)

----------------------------------------------------------------------------
(* Properties of makeWorkloadStorage. *)

BindDone == pc = "ops" /\ parsed.WorkloadConfig # <<>>
Request == parsed.WorkloadConfig[1]
Known == Request.Generator \in DOMAIN Registry
Meta == Registry[Request.Generator]
VersionsEqual == Meta.Version = Request.Version
TableExists == \E i \in 1..Len(Meta.Tables) : Meta.Tables[i].Name = Request.Table
FlagsAccepted == ~Meta.Flagser \/ FlagsParse(Meta, Request.Flags) = NoErr
BindOK == bindErr = NoErr /\ storage # <<>>

\* csv in any mix of upper and lower case
FormatIsCSV ==
    /\ Len(Request.Format) = 3
    /\ Request.Format[1] \in {"c", "C"}
    /\ Request.Format[2] \in {"s", "S"}
    /\ Request.Format[3] \in {"v", "V"}

\* C1 as stated: for a registered generator, binding fails with the version
\* error exactly when the versions differ, and equal versions always bind
\* when the table exists, whatever the format and the flags.
C1_VersionOnly ==
    (BindDone /\ Known) =>
        /\ (bindErr.fmt = ErrVersionFmt) <=> ~VersionsEqual
        /\ (VersionsEqual /\ TableExists) => BindOK

\* C1 amended: binding fails with the version error exactly when the format
\* is csv (in any case), the generator is registered and its version differs
\* from the requested one; it succeeds exactly when the format is csv, the
\* generator is registered, the versions are equal, the generator accepts the
\* flag list (or takes no flags) and has a table of the requested, non-empty
\* name.
C1_VersionGate ==
    BindDone =>
        /\ (bindErr.fmt = ErrVersionFmt) <=> (FormatIsCSV /\ Known /\ ~VersionsEqual)
        /\ bindErr.fmt = ErrVersionFmt =>
              /\ bindErr.args = <<Meta.Name, Request.Version, Meta.Version>>
              /\ storage = <<>>
        /\ BindOK <=> (/\ FormatIsCSV
                       /\ Known
                       /\ VersionsEqual
                       /\ FlagsAccepted
                       /\ TableExists
                       /\ Request.Table # <<>>)

C1_Witness ==
    /\ BindDone
    /\ bindErr.fmt = ErrVersionFmt
    /\ Request.Format = CsV
    /\ Request.Version = notInt

\* C7 amended: the format is not looked at by ParseWorkloadConfig; it is
\* makeWorkloadStorage that fails with "unsupported format" exactly when the
\* format is not csv compared case-insensitively, and it does so before
\* the generator registry is consulted.
C7_FormatCheckedAtBinding ==
    /\ Parsed => parsed.err.fmt # ErrFormatFmt
    /\ BindDone =>
          /\ (bindErr.fmt = ErrFormatFmt) <=> ~FormatIsCSV
          /\ bindErr.fmt = ErrFormatFmt =>
                /\ bindErr.args = <<Request.Format>>
                /\ lookups = <<>>
                /\ storage = <<>>

C7_Witness ==
    /\ BindDone
    /\ parsed.err = NoErr
    /\ Request.Format = bank
    /\ bindErr.fmt = ErrFormatFmt
    /\ lookups = <<>>

----------------------------------------------------------------------------
(* Properties of the adapter's operations. *)

\* the rows the bound request asks for
ExpectedRows ==
    LET s == storage[1]
        begin == s.conf.BatchBegin
        end == IF s.conf.BatchEnd = 0 THEN s.table.Rows ELSE s.conf.BatchEnd
    IN  [j \in 1..(IF end > begin THEN end - begin ELSE 0) |-> CSVRow(s.table, begin + j - 1)]

\* C2: whatever the interleaving of reads, every stream ReadFile returned
\* has its cursor at rowRangeBegin plus the rows it has yielded, has yielded
\* a prefix of the rows [begin, end) (end the table's row count when
\* rowRangeEnd is 0) in increasing order, and has yielded all of them when it
\* reports the end; so streams share no cursor and finished streams agree.
C2_StreamsIndependent ==
    storage # <<>> =>
        /\ storage[1].table.Name = storage[1].conf.Table
        /\ \A i \in 1..Len(readers) :
              /\ Len(readers[i].out) <= Len(ExpectedRows)
              /\ readers[i].out = SubSeq(ExpectedRows, 1, Len(readers[i].out))
              /\ readers[i].batchIdx = storage[1].conf.BatchBegin + Len(readers[i].out)
              /\ readers[i].eof => readers[i].out = ExpectedRows
        /\ \A i, j \in 1..Len(readers) :
              (readers[i].eof /\ readers[j].eof) => readers[i].out = readers[j].out

C2_Witness ==
    /\ storage # <<>>
    /\ storage[1].conf.BatchBegin = 1
    /\ Len(readers) = 2
    /\ readers[2].eof /\ Len(readers[2].out) = 1
    /\ ~readers[1].eof /\ readers[1].out = <<>>

UnsupportedOps == {"WriteFile", "ListFiles", "Delete", "Size"}

UnsupportedErr(op) ==
    CASE op = "WriteFile" -> ErrWrites
      [] op = "ListFiles" -> ErrListing
      [] op = "Delete" -> ErrDeletes
      [] op = "Size" -> ErrSizing

\* C8: each of WriteFile, ListFiles, Delete and Size returns its own
\* "does not support" error, the four messages pairwise distinct, and leaves
\* the adapter, its configuration, generator and table and the open streams
\* as they were, so that ReadFile opens the same stream after as before.
C8_UnsupportedNoEffect ==
    [][(ret' # ret /\ ret'.op \in UnsupportedOps) =>
          /\ ret'.returned
          /\ ret'.err = Errorf(UnsupportedErr(ret'.op), <<>>)
          /\ \A o \in UnsupportedOps \ {ret'.op} : ret'.err.fmt # UnsupportedErr(o)
          /\ storage' = storage
          /\ Conf(storage'[1]) = Conf(storage[1])
          /\ ReadFileReader(storage'[1]) = ReadFileReader(storage[1])
          /\ readers' = readers
          /\ <<parsed, bindErr, lookups, telemetry, panicked>>' =
                <<parsed, bindErr, lookups, telemetry, panicked>>]_vars

C8_Witness ==
    /\ ret.op = "Size"
    /\ ret.err.fmt = ErrSizing
    /\ Len(readers) = 1
    /\ readers[1].out # <<>>

\* C9 as stated: ReadFileAt returns an error to its caller and the adapter
\* stays usable.
C9_ReturnsError ==
    ret.op = "ReadFileAt" => (ret.returned /\ ret.err # NoErr /\ panicked = <<>>)

\* C9 amended: ReadFileAt, for every basename and offset, does not return:
\* it panics with "unimplemented", no stream and no error value reach the
\* caller, and the adapter's fields and open streams are left as they were.
C9_Panics ==
    [][(ret' # ret /\ ret'.op = "ReadFileAt") =>
          /\ ~ret'.returned
          /\ ret'.err = NoErr /\ ret'.val = <<>>
          /\ panicked = <<>> /\ panicked' = <<"unimplemented">>
          /\ storage' = storage
          /\ readers' = readers]_vars

C9_Witness ==
    /\ ret.op = "ReadFileAt"
    /\ panicked = <<"unimplemented">>
    /\ storage # <<>>
    /\ readers # <<>>

====
